---- MODULE Spec2Model ----
(***************************************************************************)
(* A model of the single-node consensus engine of slingshot:               *)
(*   src/cli/node/consensus.rs  SingleNodeConsensus (pool admission, block *)
(*                              proposal, block validation, commit)        *)
(*   src/cli/node/mod.rs        DevelopmentBeacon (the production cycle)   *)
(*   src/cli/node/routes.rs     Rest (the write operations)                *)
(* The ledger (snarkos_node_ledger::Ledger) and the transaction pool       *)
(* (node/pool.rs) are not part of the sources at hand; they are modelled   *)
(* from their interface: the ledger is the sequence of committed blocks,   *)
(* the pool is a set of transaction ids.                                   *)
(***************************************************************************)
EXTENDS Integers, Sequences, FiniteSets, TLC

VARIABLES
    blocks,              \* the ledger: committed blocks, blocks[1] is genesis
    pool,                \* memory_pool: ids of the unconfirmed transactions
    unspent_records,     \* DevelopmentBeacon.unspent_records: commitments, in map order
    now,                 \* the wall clock read by OffsetDateTime::now_utc()
    pc,                  \* position of the production cycle
    beacon_transaction,  \* produce_next_block: the filler transaction, 0 = None
    next_block,          \* produce_next_block: the proposed block (valid from pc = "check")
    last,                \* the operation performed by the last step and its result
    requests,            \* the calls of add_unconfirmed_transaction taken in two steps
    shutdown,            \* DevelopmentBeacon.shutdown: the flag set by shut_down
    block_generation_time \* DevelopmentBeacon.block_generation_time, in seconds

vars == <<blocks, pool, unspent_records, now, pc, beacon_transaction, next_block, last,
         requests, shutdown, block_generation_time>>

----------------------------------------------------------------------------
(* Bounds of the model *)

\* committed blocks after genesis
MaxHeight == 2
\* largest clock reading
MaxTime == 2
\* largest number of pooled transactions the model explores
MaxPool == 2
\* the number of calls of add_unconfirmed_transaction taken in two steps
MaxRequests == 2

(* Program constants (scaled) *)

\* Transactions::MAX_TRANSACTIONS, scaled down
MAX_TRANSACTIONS == 3
\* N::ANCHOR_TIME, scaled down
ANCHOR_TIME == 1
\* the genesis coinbase target, scaled down
GENESIS_COINBASE_TARGET == 8
\* the floor of coinbase_target, scaled down
MIN_COINBASE_TARGET == 2
\* the timestamp of the genesis block
GENESIS_TIMESTAMP == 0
\* the amount of the filler self-transfer
TRANSFER_AMOUNT == 1

Max(a, b) == IF a >= b THEN a ELSE b

----------------------------------------------------------------------------
(* Transactions.  A transaction is identified by its id; Tx(id) is its     *)
(* content.  Ids 1..13 are transactions submitted over REST, id 0 is the   *)
(* genesis transaction and 1000 + c is the filler self-transfer spending   *)
(* the operator's record with commitment c.                                *)

MkTx(id, deploy, fee, size, verifies, own, shared) ==
    [ id |-> id, deploy |-> deploy, program_id |-> shared.program_id,
      fee |-> fee, size |-> size, verifies |-> verifies,
      input_ids      |-> IF "input_id" \in DOMAIN shared THEN {shared.input_id} ELSE {own},
      serial_numbers |-> IF "serial_number" \in DOMAIN shared THEN {shared.serial_number} ELSE {own},
      tags           |-> IF "tag" \in DOMAIN shared THEN {shared.tag} ELSE {own},
      output_ids     |-> IF "output_id" \in DOMAIN shared THEN {shared.output_id} ELSE {own},
      commitments    |-> IF "commitment" \in DOMAIN shared THEN {shared.commitment} ELSE {own},
      nonces         |-> IF "nonce" \in DOMAIN shared THEN {shared.nonce} ELSE {own},
      tpks           |-> IF "tpk" \in DOMAIN shared THEN {shared.tpk} ELSE {own},
      tcms           |-> IF "tcm" \in DOMAIN shared THEN {shared.tcm} ELSE {own} ]

\* The REST transactions: 1 is a plain execution; 2, 3, 4, 9..13 each reuse
\* exactly one identifier of 1; 5 has a fee above its size; 6 and 7 deploy
\* the same program; 8 carries a proof that does not verify.
RestTx(id) ==
    CASE id = 1  -> MkTx(1, FALSE, 1, 2, TRUE, 1, [program_id |-> 0])
      [] id = 2  -> MkTx(2, FALSE, 2, 2, TRUE, 2, [program_id |-> 0, serial_number |-> 1])
      [] id = 3  -> MkTx(3, FALSE, 0, 2, TRUE, 3, [program_id |-> 0, input_id |-> 1])
      [] id = 4  -> MkTx(4, FALSE, 1, 2, TRUE, 4, [program_id |-> 0, commitment |-> 1])
      [] id = 5  -> MkTx(5, FALSE, 3, 2, TRUE, 5, [program_id |-> 0])
      [] id = 6  -> MkTx(6, TRUE, -1, 2, TRUE, 6, [program_id |-> 1])
      [] id = 7  -> MkTx(7, TRUE, 0, 2, TRUE, 7, [program_id |-> 1])
      [] id = 8  -> MkTx(8, FALSE, 1, 2, FALSE, 8, [program_id |-> 0])
      [] id = 9  -> MkTx(9, FALSE, 1, 2, TRUE, 9, [program_id |-> 0, tag |-> 1])
      [] id = 10 -> MkTx(10, FALSE, 1, 2, TRUE, 10, [program_id |-> 0, output_id |-> 1])
      [] id = 11 -> MkTx(11, FALSE, 1, 2, TRUE, 11, [program_id |-> 0, nonce |-> 1])
      [] id = 12 -> MkTx(12, FALSE, 1, 2, TRUE, 12, [program_id |-> 0, tpk |-> 1])
      [] OTHER   -> MkTx(13, FALSE, 1, 2, TRUE, 13, [program_id |-> 0, tcm |-> 1])

\* The operator's records created by the genesis block.
GenesisCommitments == {50}

\* The balance of the operator's record with commitment c: a transfer of
\* TRANSFER_AMOUNT out of record c creates record 2c (the amount, sent to
\* the operator itself) and record 2c + 1 (the change).
RECURSIVE Gates(_)
Gates(c) ==
    IF c \in GenesisCommitments THEN 2
    ELSE IF c % 2 = 0 THEN TRANSFER_AMOUNT
    ELSE Gates(c \div 2) - TRANSFER_AMOUNT

\* Transaction::execute(credits.aleo, transfer, [record, to, 1u64]) on the
\* record with commitment c.
FillerTx(c) ==
    [ id |-> 1000 + c, deploy |-> FALSE, program_id |-> 0,
      fee |-> 0, size |-> 2, verifies |-> TRUE,
      input_ids |-> {1000 + c}, serial_numbers |-> {1000 + c}, tags |-> {1000 + c},
      output_ids |-> {2 * c, 2 * c + 1}, commitments |-> {2 * c, 2 * c + 1},
      nonces |-> {2 * c, 2 * c + 1}, tpks |-> {1000 + c}, tcms |-> {1000 + c} ]

\* Ledger::create_transfer on the operator's record with commitment c, for
\* the whole balance of the record: the transfer spends the record, so it
\* has the serial number and the tag the filler transfer of that record has,
\* and its outputs, the recipient's record and a change of zero, are no
\* records the operator can spend (they are numbered below zero).
PourTx(c) ==
    [ id |-> 2000 + c, deploy |-> FALSE, program_id |-> 0,
      fee |-> 0, size |-> 2, verifies |-> TRUE,
      input_ids |-> {1000 + c}, serial_numbers |-> {1000 + c}, tags |-> {1000 + c},
      output_ids |-> {0 - 2 * c, 0 - 2 * c - 1}, commitments |-> {0 - 2 * c, 0 - 2 * c - 1},
      nonces |-> {0 - 2 * c, 0 - 2 * c - 1}, tpks |-> {2000 + c}, tcms |-> {2000 + c} ]

GenesisTx ==
    [ id |-> 0, deploy |-> FALSE, program_id |-> 0,
      fee |-> 0, size |-> 2, verifies |-> TRUE,
      input_ids |-> {0}, serial_numbers |-> {0}, tags |-> {0},
      output_ids |-> GenesisCommitments, commitments |-> GenesisCommitments,
      nonces |-> GenesisCommitments, tpks |-> {0}, tcms |-> {0} ]

Tx(id) ==
    IF id = 0 THEN GenesisTx
    ELSE IF id >= 2000 THEN PourTx(id - 2000)
    ELSE IF id >= 1000 THEN FillerTx(id - 1000)
    ELSE RestTx(id)

----------------------------------------------------------------------------
(* Blocks.  A header is a record of the metadata, the transactions root,   *)
(* the coinbase accumulator point (0 is Field::zero()) and the verdict of  *)
(* Header::is_valid (well_formed).  The root of a transaction list is the  *)
(* list itself, the root of a header is the tuple of its fields, and a     *)
(* hash is the pair of the values hashed, so equal hashes mean equal       *)
(* contents.                                                               *)

to_root(transactions) == transactions

\* header.to_root()
header_to_root(header) ==
    << header.round, header.height, header.timestamp, header.coinbase_target,
       header.proof_target, header.last_coinbase_target, header.last_coinbase_timestamp,
       header.transactions_root, header.coinbase_accumulator_point, header.well_formed >>

hash_bhp1024(previous_hash, header_root) == <<previous_hash, header_root>>

\* private_key.sign(&[block_hash]): a signature names its signer and the message.
sign(private_key, message) == [signer |-> private_key, message |-> message]

\* signature.verify(&address, &[message])
verify(signature, address, message) ==
    signature.signer = address /\ signature.message = message

\* retarget(): the target falls as the time since the last coinbase grows.
coinbase_target(previous_coinbase_target, previous_block_timestamp, timestamp) ==
    LET drift == Max(timestamp - previous_block_timestamp, 1) - ANCHOR_TIME
    IN  Max(previous_coinbase_target - drift, MIN_COINBASE_TARGET)

proof_target(target) == (target \div 2) + 1

GenesisHeader ==
    [ round |-> 0, height |-> 0, timestamp |-> GENESIS_TIMESTAMP,
      coinbase_target |-> GENESIS_COINBASE_TARGET,
      proof_target |-> proof_target(GENESIS_COINBASE_TARGET),
      last_coinbase_target |-> GENESIS_COINBASE_TARGET,
      last_coinbase_timestamp |-> GENESIS_TIMESTAMP,
      transactions_root |-> to_root({0}),
      coinbase_accumulator_point |-> 0,
      well_formed |-> TRUE ]

GenesisBlock ==
    [ previous_hash |-> <<>>,
      header |-> GenesisHeader,
      transactions |-> {0},
      coinbase |-> FALSE,
      hash |-> hash_bhp1024(<<>>, header_to_root(GenesisHeader)),
      signature |-> sign("genesis", hash_bhp1024(<<>>, header_to_root(GenesisHeader))) ]

\* header.is_valid(): the verdict on the Merkle structure (well_formed) and
\* Metadata::is_valid: above genesis the round is not 0 and not below the height.
header_is_valid(header) ==
    /\ header.well_formed
    /\ header.height = 0 \/ (header.round # 0 /\ header.round >= header.height)

\* block.is_genesis()
is_genesis(block) ==
    /\ block.previous_hash = <<>>
    /\ block.header.height = 0
    /\ block.header.round = 0
    /\ block.header.timestamp = GENESIS_TIMESTAMP
    /\ ~block.coinbase

\* block.serial_numbers(), block.commitments(), ...: the identifiers of all
\* transactions of a block.
block_serial_numbers(block) == UNION {Tx(t).serial_numbers : t \in block.transactions}
block_commitments(block) == UNION {Tx(t).commitments : t \in block.transactions}
block_nonces(block) == UNION {Tx(t).nonces : t \in block.transactions}
block_tpks(block) == UNION {Tx(t).tpks : t \in block.transactions}

----------------------------------------------------------------------------
(* The ledger, read through its interface; bs is the sequence of blocks.   *)

latest_block(bs) == bs[Len(bs)]
latest_height(bs) == latest_block(bs).header.height
latest_round(bs) == latest_block(bs).header.round
latest_hash(bs) == latest_block(bs).hash
\* latest_timestamp as it would be if it read the first block of the ledger.
first_timestamp(bs) == bs[1].header.timestamp

latest_timestamp(bs) == latest_block(bs).header.timestamp
last_coinbase_target(bs) == latest_block(bs).header.last_coinbase_target
last_coinbase_timestamp(bs) == latest_block(bs).header.last_coinbase_timestamp

confirmed(bs) == UNION {bs[i].transactions : i \in 1..Len(bs)}

contains_block_hash(bs, hash) == \E i \in 1..Len(bs) : bs[i].hash = hash
contains_block_height(bs, height) == \E i \in 1..Len(bs) : bs[i].header.height = height
contains_transaction_id(bs, id) == id \in confirmed(bs)
contains_input_id(bs, x) == \E t \in confirmed(bs) : x \in Tx(t).input_ids
contains_serial_number(bs, x) == \E t \in confirmed(bs) : x \in Tx(t).serial_numbers
contains_tag(bs, x) == \E t \in confirmed(bs) : x \in Tx(t).tags
contains_output_id(bs, x) == \E t \in confirmed(bs) : x \in Tx(t).output_ids
contains_commitment(bs, x) == \E t \in confirmed(bs) : x \in Tx(t).commitments
contains_nonce(bs, x) == \E t \in confirmed(bs) : x \in Tx(t).nonces
contains_tpk(bs, x) == \E t \in confirmed(bs) : x \in Tx(t).tpks
contains_tcm(bs, x) == \E t \in confirmed(bs) : x \in Tx(t).tcms
contains_program_id(bs, p) == \E t \in confirmed(bs) : Tx(t).deploy /\ Tx(t).program_id = p

\* ledger.add_next_block(block) when the write succeeds
add_next_block(bs, block) == Append(bs, block)

\* The first failing check of a list of <<failed, error>> pairs, or "Ok".
FirstError(checks) ==
    IF \E i \in 1..Len(checks) : checks[i][1]
    THEN checks[CHOOSE i \in 1..Len(checks) :
                    checks[i][1] /\ \A j \in 1..(i - 1) : ~checks[j][1]][2]
    ELSE "Ok"

----------------------------------------------------------------------------
(* SingleNodeConsensus::check_transaction_basic *)

\* check_transaction_basic as it would be without the input-id check of lines
\* 386-391: the uniqueness of committed identifiers must not survive it.
check_transaction_basic_without_input_id(bs, id) ==
    LET transaction == Tx(id) IN
    FirstError(<<
        <<contains_transaction_id(bs, id), "TransactionExists">>,
        <<transaction.fee >= 0 /\ transaction.size < transaction.fee, "InsufficientFee">>,
        <<~transaction.verifies, "InvalidTransaction">>,
        <<\E x \in transaction.serial_numbers : contains_serial_number(bs, x), "SerialNumberExists">>,
        <<\E x \in transaction.tags : contains_tag(bs, x), "TagExists">>,
        <<\E x \in transaction.output_ids : contains_output_id(bs, x), "OutputIdExists">>,
        <<\E x \in transaction.commitments : contains_commitment(bs, x), "CommitmentExists">>,
        <<\E x \in transaction.nonces : contains_nonce(bs, x), "NonceExists">>,
        <<transaction.deploy /\ contains_program_id(bs, transaction.program_id), "ProgramIdExists">>,
        <<\E x \in transaction.tpks : contains_tpk(bs, x), "TpkExists">>,
        <<\E x \in transaction.tcms : contains_tcm(bs, x), "TcmExists">>
    >>)

\* check_transaction_basic as it would be without the tag check of lines
\* 400-405: the rejection of reused identifiers must not survive it.
check_transaction_basic_without_tag(bs, id) ==
    LET transaction == Tx(id) IN
    FirstError(<<
        <<contains_transaction_id(bs, id), "TransactionExists">>,
        <<transaction.fee >= 0 /\ transaction.size < transaction.fee, "InsufficientFee">>,
        <<~transaction.verifies, "InvalidTransaction">>,
        <<\E x \in transaction.input_ids : contains_input_id(bs, x), "InputIdExists">>,
        <<\E x \in transaction.serial_numbers : contains_serial_number(bs, x), "SerialNumberExists">>,
        <<\E x \in transaction.output_ids : contains_output_id(bs, x), "OutputIdExists">>,
        <<\E x \in transaction.commitments : contains_commitment(bs, x), "CommitmentExists">>,
        <<\E x \in transaction.nonces : contains_nonce(bs, x), "NonceExists">>,
        <<transaction.deploy /\ contains_program_id(bs, transaction.program_id), "ProgramIdExists">>,
        <<\E x \in transaction.tpks : contains_tpk(bs, x), "TpkExists">>,
        <<\E x \in transaction.tcms : contains_tcm(bs, x), "TcmExists">>
    >>)

check_transaction_basic(bs, id) ==
    LET transaction == Tx(id) IN
    FirstError(<<
        <<contains_transaction_id(bs, id), "TransactionExists">>,
        <<transaction.fee >= 0 /\ transaction.size < transaction.fee, "InsufficientFee">>,
        <<~transaction.verifies, "InvalidTransaction">>,
        <<\E x \in transaction.input_ids : contains_input_id(bs, x), "InputIdExists">>,
        <<\E x \in transaction.serial_numbers : contains_serial_number(bs, x), "SerialNumberExists">>,
        <<\E x \in transaction.tags : contains_tag(bs, x), "TagExists">>,
        <<\E x \in transaction.output_ids : contains_output_id(bs, x), "OutputIdExists">>,
        <<\E x \in transaction.commitments : contains_commitment(bs, x), "CommitmentExists">>,
        <<\E x \in transaction.nonces : contains_nonce(bs, x), "NonceExists">>,
        <<transaction.deploy /\ contains_program_id(bs, transaction.program_id), "ProgramIdExists">>,
        <<\E x \in transaction.tpks : contains_tpk(bs, x), "TpkExists">>,
        <<\E x \in transaction.tcms : contains_tcm(bs, x), "TcmExists">>
    >>)

----------------------------------------------------------------------------
(* SingleNodeConsensus::check_next_block *)

next_block_error(bs, block) ==
    LET header == block.header
        expected_coinbase_target ==
            coinbase_target(last_coinbase_target(bs), last_coinbase_timestamp(bs), header.timestamp)
    IN
    FirstError(<<
        <<latest_hash(bs) # block.previous_hash, "IncorrectPreviousHash">>,
        <<contains_block_hash(bs, block.hash), "BlockHashExists">>,
        <<latest_height(bs) > 0 /\ latest_height(bs) + 1 # header.height, "IncorrectHeight">>,
        <<contains_block_height(bs, header.height), "BlockHeightExists">>,
        <<latest_round(bs) > 0 /\ latest_round(bs) + 1 # header.round, "IncorrectRound">>,
        <<header.height > 0 /\ header.timestamp <= latest_timestamp(bs), "TimestampNotAfter">>,
        <<\E t \in block.transactions : contains_transaction_id(bs, t), "TransactionExists">>,
        <<\E x \in block_serial_numbers(block) : contains_serial_number(bs, x), "SerialNumberExists">>,
        <<\E x \in block_commitments(block) : contains_commitment(bs, x), "CommitmentExists">>,
        <<\E x \in block_nonces(block) : contains_nonce(bs, x), "NonceExists">>,
        <<\E x \in block_tpks(block) : contains_tpk(bs, x), "TpkExists">>,
        <<header.height = 0 /\ ~is_genesis(block), "InvalidGenesis">>,
        <<~header_is_valid(header), "InvalidHeader">>,
        <<header.height > 0 /\ block.coinbase
            /\ header.last_coinbase_target # header.coinbase_target, "LastCoinbaseTarget">>,
        <<header.height > 0 /\ block.coinbase
            /\ header.last_coinbase_timestamp # header.timestamp, "LastCoinbaseTimestamp">>,
        <<header.height > 0 /\ ~block.coinbase
            /\ header.last_coinbase_target # last_coinbase_target(bs), "LastCoinbaseTarget">>,
        <<header.height > 0 /\ ~block.coinbase
            /\ header.last_coinbase_timestamp # last_coinbase_timestamp(bs), "LastCoinbaseTimestamp">>,
        <<header.coinbase_target # expected_coinbase_target, "InvalidCoinbaseTarget">>,
        <<header.proof_target # proof_target(expected_coinbase_target), "InvalidProofTarget">>,
        <<hash_bhp1024(block.previous_hash, header_to_root(header)) # block.hash, "IncorrectBlockHash">>,
        <<~verify(block.signature, block.signature.signer, block.hash), "InvalidSignature">>,
        <<to_root(block.transactions) # header.transactions_root, "IncorrectTransactionsRoot">>,
        <<block.transactions = {}, "EmptyTransactions">>,
        <<Cardinality(block.transactions) > MAX_TRANSACTIONS, "TooManyTransactions">>,
        <<\E t \in block.transactions : check_transaction_basic(bs, t) # "Ok", "InvalidTransactionInList">>,
        <<block.coinbase, "CoinbaseSolutionPresent">>,
        <<header.coinbase_accumulator_point # 0, "NonZeroAccumulatorPoint">>
    >>)

----------------------------------------------------------------------------
\* check_next_block as it would be if a refused block emptied the pool.
check_next_block_clearing(bs, p, block) ==
    [result |-> next_block_error(bs, block),
     pool |-> IF next_block_error(bs, block) = "Ok" THEN p ELSE {},
     blocks |-> bs]

\* check_next_block as it would be without the tests of lines 349-357.
check_next_block_without_coinbase_test(bs, p, block) ==
    [result |-> IF next_block_error(bs, block)
                     \in {"CoinbaseSolutionPresent", "NonZeroAccumulatorPoint"}
                THEN "Ok" ELSE next_block_error(bs, block),
     pool |-> p,
     blocks |-> bs]

\* check_next_block takes &self and only reads: the pool and the ledger are
\* handed back as they were.
check_next_block(bs, p, block) ==
    [result |-> next_block_error(bs, block), pool |-> p, blocks |-> bs]

----------------------------------------------------------------------------
(* TransactionPool, from its contract: a map keyed by transaction id.      *)

contains_unconfirmed_transaction(p, id) == id \in p
pool_add_unconfirmed_transaction(p, id) == p \cup {id}
num_unconfirmed_transactions(p) == Cardinality(p)
candidate_transactions(p, bs) == {t \in p : check_transaction_basic(bs, t) = "Ok"}
clear_invalid_transactions(p, bs) == {t \in p : check_transaction_basic(bs, t) = "Ok"}
clear_unconfirmed_transactions(p) == {}

----------------------------------------------------------------------------
(* SingleNodeConsensus: the operations on the pool and the ledger.  Each   *)
(* operator returns [result, pool, blocks]: the result and the state left; *)
(* propose_next_block returns the block as well.                           *)

\* add_unconfirmed_transaction as it would be without the test of lines 56-58.
add_unconfirmed_transaction_without_pool_test(bs, p, id) ==
    IF check_transaction_basic(bs, id) # "Ok"
    THEN [result |-> check_transaction_basic(bs, id), pool |-> p, blocks |-> bs]
    ELSE [result |-> "Ok", pool |-> p \cup {id}, blocks |-> bs]

\* add_unconfirmed_transaction as it would be without the insertion of
\* line 62.
add_unconfirmed_transaction_without_insert(bs, p, id) ==
    IF contains_unconfirmed_transaction(p, id)
    THEN [result |-> "AlreadyInPool", pool |-> p, blocks |-> bs]
    ELSE IF check_transaction_basic(bs, id) # "Ok"
    THEN [result |-> check_transaction_basic(bs, id), pool |-> p, blocks |-> bs]
    ELSE [result |-> "Ok", pool |-> p, blocks |-> bs]

add_unconfirmed_transaction(bs, p, id) ==
    IF contains_unconfirmed_transaction(p, id)
    THEN [result |-> "AlreadyInPool", pool |-> p, blocks |-> bs]
    ELSE IF check_transaction_basic(bs, id) # "Ok"
    THEN [result |-> check_transaction_basic(bs, id), pool |-> p, blocks |-> bs]
    ELSE [result |-> "Ok", pool |-> pool_add_unconfirmed_transaction(p, id), blocks |-> bs]

\* Block::new: signs the hash of the previous hash and the header root; it
\* refuses an empty transaction list.
NewBlock(private_key, previous_hash, header, transactions, coinbase) ==
    [ previous_hash |-> previous_hash,
      header |-> header,
      transactions |-> transactions,
      coinbase |-> coinbase,
      hash |-> hash_bhp1024(previous_hash, header_to_root(header)),
      signature |-> sign(private_key, hash_bhp1024(previous_hash, header_to_root(header))) ]

\* propose_next_block as it would be if the round went up by two.
propose_next_block_skipping_round(bs, p, private_key, next_timestamp, lib_ok) ==
    LET latest == latest_block(bs)
        transactions == candidate_transactions(p, bs)
        next_coinbase_target ==
            coinbase_target(latest.header.last_coinbase_target,
                            latest.header.last_coinbase_timestamp, next_timestamp)
        header ==
            [ round |-> latest.header.round + 2,
              height |-> latest.header.height + 1,
              timestamp |-> next_timestamp,
              coinbase_target |-> next_coinbase_target,
              proof_target |-> proof_target(next_coinbase_target),
              last_coinbase_target |-> latest.header.last_coinbase_target,
              last_coinbase_timestamp |-> latest.header.last_coinbase_timestamp,
              transactions_root |-> to_root(transactions),
              coinbase_accumulator_point |-> 0,
              well_formed |-> TRUE ]
    IN  IF ~lib_ok THEN [result |-> "LibraryError", block |-> <<>>, pool |-> p, blocks |-> bs]
        ELSE IF transactions = {} THEN [result |-> "EmptyBlock", block |-> <<>>, pool |-> p, blocks |-> bs]
        ELSE [result |-> "Ok",
              block |-> NewBlock(private_key, latest.hash, header, transactions, FALSE),
              pool |-> p, blocks |-> bs]

\* propose_next_block as it would be if the coinbase target were computed
\* from the timestamp of the head block.
propose_next_block_target_from_head(bs, p, private_key, next_timestamp, lib_ok) ==
    LET latest == latest_block(bs)
        transactions == candidate_transactions(p, bs)
        next_coinbase_target ==
            coinbase_target(latest.header.last_coinbase_target,
                            latest.header.timestamp, next_timestamp)
        header ==
            [ round |-> latest.header.round + 1,
              height |-> latest.header.height + 1,
              timestamp |-> next_timestamp,
              coinbase_target |-> next_coinbase_target,
              proof_target |-> proof_target(next_coinbase_target),
              last_coinbase_target |-> latest.header.last_coinbase_target,
              last_coinbase_timestamp |-> latest.header.last_coinbase_timestamp,
              transactions_root |-> to_root(transactions),
              coinbase_accumulator_point |-> 0,
              well_formed |-> TRUE ]
    IN  IF ~lib_ok THEN [result |-> "LibraryError", block |-> <<>>, pool |-> p, blocks |-> bs]
        ELSE IF transactions = {} THEN [result |-> "EmptyBlock", block |-> <<>>, pool |-> p, blocks |-> bs]
        ELSE [result |-> "Ok",
              block |-> NewBlock(private_key, latest.hash, header, transactions, FALSE),
              pool |-> p, blocks |-> bs]

\* propose_next_block as it would be if the candidates it selects left the
\* pool.
propose_next_block_taking_candidates(bs, p, private_key, next_timestamp, lib_ok) ==
    LET latest == latest_block(bs)
        transactions == candidate_transactions(p, bs)
        next_coinbase_target ==
            coinbase_target(latest.header.last_coinbase_target,
                            latest.header.last_coinbase_timestamp, next_timestamp)
        header ==
            [ round |-> latest.header.round + 1,
              height |-> latest.header.height + 1,
              timestamp |-> next_timestamp,
              coinbase_target |-> next_coinbase_target,
              proof_target |-> proof_target(next_coinbase_target),
              last_coinbase_target |-> latest.header.last_coinbase_target,
              last_coinbase_timestamp |-> latest.header.last_coinbase_timestamp,
              transactions_root |-> to_root(transactions),
              coinbase_accumulator_point |-> 0,
              well_formed |-> TRUE ]
    IN  IF ~lib_ok THEN [result |-> "LibraryError", block |-> <<>>, pool |-> p, blocks |-> bs]
        ELSE IF transactions = {} THEN [result |-> "EmptyBlock", block |-> <<>>, pool |-> p, blocks |-> bs]
        ELSE [result |-> "Ok",
              block |-> NewBlock(private_key, latest.hash, header, transactions, FALSE),
              pool |-> p \ transactions, blocks |-> bs]

\* lib_ok: whether the fallible library calls (coinbase_target, Metadata::new,
\* to_root, Header::from) succeed.
propose_next_block(bs, p, private_key, next_timestamp, lib_ok) ==
    LET latest == latest_block(bs)
        transactions == candidate_transactions(p, bs)
        next_coinbase_target ==
            coinbase_target(latest.header.last_coinbase_target,
                            latest.header.last_coinbase_timestamp, next_timestamp)
        header ==
            [ round |-> latest.header.round + 1,
              height |-> latest.header.height + 1,
              timestamp |-> next_timestamp,
              coinbase_target |-> next_coinbase_target,
              proof_target |-> proof_target(next_coinbase_target),
              last_coinbase_target |-> latest.header.last_coinbase_target,
              last_coinbase_timestamp |-> latest.header.last_coinbase_timestamp,
              transactions_root |-> to_root(transactions),
              coinbase_accumulator_point |-> 0,
              well_formed |-> TRUE ]
    IN  IF ~lib_ok THEN [result |-> "LibraryError", block |-> <<>>, pool |-> p, blocks |-> bs]
        ELSE IF transactions = {} THEN [result |-> "EmptyBlock", block |-> <<>>, pool |-> p, blocks |-> bs]
        ELSE [result |-> "Ok",
              block |-> NewBlock(private_key, latest.hash, header, transactions, FALSE),
              pool |-> p, blocks |-> bs]

\* advance_to_next_block as it would be if it emptied the pool itself when
\* ledger.add_next_block fails.
advance_to_next_block_clearing(bs, p, block, ledger_ok) ==
    IF ~ledger_ok
    THEN [result |-> "LedgerError", pool |-> {}, blocks |-> bs]
    ELSE [result |-> "Ok",
          pool |-> {t \in p : check_transaction_basic(Append(bs, block), t) = "Ok"},
          blocks |-> Append(bs, block)]

\* advance_to_next_block as it would be without the call of
\* clear_invalid_transactions at line 129.
advance_to_next_block_without_pruning(bs, p, block, ledger_ok) ==
    IF ~ledger_ok
    THEN [result |-> "LedgerError", pool |-> p, blocks |-> bs]
    ELSE [result |-> "Ok", pool |-> p, blocks |-> Append(bs, block)]

\* ledger_ok: whether ledger.add_next_block succeeds.
advance_to_next_block(bs, p, block, ledger_ok) ==
    IF ~ledger_ok
    THEN [result |-> "LedgerError", pool |-> p, blocks |-> bs]
    ELSE [result |-> "Ok",
          pool |-> clear_invalid_transactions(p, add_next_block(bs, block)),
          blocks |-> add_next_block(bs, block)]

\* clear_memory_pool as it would be if it only evicted what is invalid.
clear_memory_pool_keeping_valid(bs, p) ==
    [result |-> "Ok",
     pool |-> {t \in p : check_transaction_basic(bs, t) = "Ok"},
     blocks |-> bs]

\* clear_memory_pool as it would be if each call evicted one entry only.
clear_memory_pool_evicting_one(bs, p) ==
    [result |-> "Ok",
     pool |-> IF p = {} THEN {} ELSE p \ {CHOOSE t \in p : \A u \in p : t <= u},
     blocks |-> bs]

clear_memory_pool(bs, p) ==
    [result |-> "Ok", pool |-> clear_unconfirmed_transactions(p), blocks |-> bs]

refresh_memory_pool(bs, p) ==
    [result |-> "Ok", pool |-> clear_invalid_transactions(p, bs), blocks |-> bs]

----------------------------------------------------------------------------
(* The operator's unspent records: an IndexMap keyed by commitment, kept   *)
(* as the sequence of its keys; the record of a commitment is fixed.       *)

Range(m) == {m[i] : i \in 1..Len(m)}

\* IndexMap::insert as it would be if it added an entry for a present key
\* as well.
map_insert_adding_entry(m, c) == Append(m, c)

\* IndexMap::insert: a present key keeps its place, a new key goes last.
map_insert(m, c) == IF c \in Range(m) THEN m ELSE Append(m, c)

\* IndexMap::shift_remove_index(0) of a non-empty map
shift_remove_index0(m) == Tail(m)

RECURSIVE SortedSeq(_)
SortedSeq(S) ==
    IF S = {} THEN <<>>
    ELSE LET least == CHOOSE x \in S : \A y \in S : x <= y
         IN  <<least>> \o SortedSeq(S \ {least})

\* The records of the operator: the outputs of the genesis transaction and
\* of the filler transfers (a REST transaction pays other accounts).
owned_by_operator(c) == \E g \in GenesisCommitments : c >= g

\* The serial number that spends the record with commitment c.
serial_number_of(c) == 1000 + c

\* ledger.find_unspent_records(view_key)
find_unspent_records(bs) ==
    SortedSeq({c \in UNION {Tx(t).commitments : t \in confirmed(bs)} :
                  /\ owned_by_operator(c)
                  /\ Gates(c) # 0
                  /\ ~contains_serial_number(bs, serial_number_of(c))})

\* Ledger::create_transfer(ledger, private_key, to, amount): the unspent
\* record of the key with the least balance among those that hold the
\* amount, found by a scan of the ledger; 0 when there is none.
create_transfer(bs, amount) ==
    LET records == {c \in Range(find_unspent_records(bs)) : Gates(c) >= amount}
        least == {c \in records : \A d \in records : Gates(c) <= Gates(d)}
    IN  IF records = {} THEN 0
        ELSE CHOOSE c \in least : \A d \in least : c <= d

\* The output records of a transaction, in transition order.
into_records(id) == SortedSeq(Tx(id).commitments)

\* insert_records as it would be without the test of line 314: the outputs
\* of zero balance are inserted as well.
RECURSIVE insert_records_keeping_zero(_, _)
insert_records_keeping_zero(m, records) ==
    IF records = <<>> THEN m
    ELSE insert_records_keeping_zero(map_insert(m, Head(records)), Tail(records))

\* mod.rs 309-325: insert the non-zero outputs of the filler transaction;
\* fail_at = i > 0 means decrypting the i-th output fails, and then the map
\* is recomputed from the ledger.
RECURSIVE insert_records(_, _)
insert_records(m, records) ==
    IF records = <<>> THEN m
    ELSE insert_records(IF Gates(Head(records)) # 0 THEN map_insert(m, Head(records)) ELSE m,
                        Tail(records))

\* mod.rs 313: record.decrypt(view_key) fails on the fail_at-th output of
\* the filler transaction.
decrypt_fails(id, fail_at) == id # 0 /\ fail_at \in 1..Len(into_records(id))

\* mod.rs 311-318 up to the failure: the non-zero outputs before the
\* fail_at-th are inserted.
insert_records_before(m, id, fail_at) ==
    insert_records(m, SubSeq(into_records(id), 1, fail_at - 1))

\* The saving of the outputs as it would be without lines 320-323: after a
\* failed decryption the map keeps what was inserted before it.
save_unspent_records_leaving_partial(m, bs, id, fail_at) ==
    IF id = 0 THEN m
    ELSE IF fail_at \in 1..Len(into_records(id)) THEN insert_records_before(m, id, fail_at)
    ELSE insert_records(m, into_records(id))

\* The saving of the outputs as it would be if nothing were inserted.
save_unspent_records_without_insert(m, bs, id, fail_at) ==
    IF id = 0 THEN m
    ELSE IF fail_at \in 1..Len(into_records(id)) THEN find_unspent_records(bs)
    ELSE m

save_unspent_records(m, bs, id, fail_at) ==
    IF id = 0 THEN m
    ELSE IF fail_at \in 1..Len(into_records(id)) THEN find_unspent_records(bs)
    ELSE insert_records(m, into_records(id))

----------------------------------------------------------------------------
(* The state machine *)

\* No block: the value of next_block outside a cycle.
NoBlock == <<>>

\* A call of add_unconfirmed_transaction that has not begun.  stage: "idle",
\* "validated" (lines 56-60 passed, line 62 not reached) or "done"; with: the
\* calls that were between validation and insertion when this one began, or
\* began while this one was.
NoRequest == [stage |-> "idle", tx |-> 0, result |-> "", with |-> {}]

\* mod.rs 191: the expected time per block, in seconds.
ROUND_TIME == 15

\* mod.rs 108: block_generation_time starts at AtomicU64::new(2).
INITIAL_BLOCK_GENERATION_TIME == 2

\* u64::saturating_sub as a subtraction that wraps around, on a word of 16
\* bits.
wrapping_sub(a, b) == (a - b) % (2 ^ 16)

\* u64::saturating_sub: the difference, 0 where it would be negative.
saturating_sub(a, b) == IF b > a THEN 0 ELSE a - b

\* mod.rs 202: the sleep before a cycle, from the stored duration.
time_to_wait(generation_time) == saturating_sub(ROUND_TIME, generation_time)

\* mod.rs 210-214: the duration is stored when produce_next_block returns
\* Ok and kept when it returns an error.
generation_time_after(generation_time, result, elapsed) ==
    IF result = "Ok" THEN elapsed ELSE generation_time

\* The seconds a cycle takes in the specifications that do not vary the
\* duration: as long as the loop assumes before its first cycle.
CYCLE_TIME == INITIAL_BLOCK_GENERATION_TIME


\* after_cycle as it would be if the loop did not read the flag.
after_cycle_ignoring_flag == "idle"

\* mod.rs 210-220: produce_next_block has returned, with Ok or with an
\* error that is logged, and the loop reads the shutdown flag: it leaves
\* when the flag is set and goes back to its wait otherwise.  The read is
\* part of the step that ends the cycle.
after_cycle == IF shutdown THEN "exited" ELSE "idle"

Init ==
    /\ blocks = <<GenesisBlock>>
    /\ pool = {}
    /\ unspent_records = find_unspent_records(<<GenesisBlock>>)
    /\ now = GENESIS_TIMESTAMP + 1
    /\ pc = "idle"
    /\ beacon_transaction = 0
    /\ next_block = NoBlock
    /\ last = [op |-> "init", result |-> "Ok"]
    /\ requests = [r \in 1..MaxRequests |-> NoRequest]
    /\ shutdown = FALSE
    /\ block_generation_time = INITIAL_BLOCK_GENERATION_TIME

\* The clock advances.
Tick ==
    /\ now < MaxTime
    /\ now' = now + 1
    /\ last' = [op |-> "tick", result |-> "Ok"]
    /\ UNCHANGED <<blocks, pool, unspent_records, pc, beacon_transaction, next_block, requests, shutdown, block_generation_time>>

\* routes.rs faucet_pour / program_deploy / program_execute: a REST handler
\* hands transaction id to add_unconfirmed_transaction.
RestAdd(id) ==
    /\ Cardinality(pool) < MaxPool
    /\ LET r == add_unconfirmed_transaction(blocks, pool, id) IN
        /\ pool' = r.pool
        /\ blocks' = r.blocks
        /\ last' = [op |-> "add", tx |-> id, result |-> r.result]
    /\ UNCHANGED <<unspent_records, now, pc, beacon_transaction, next_block, requests, shutdown, block_generation_time>>

\* The start of a cycle as it would be without the test of line 230: a
\* filler is built whatever the pool holds.
StartCycle_always_building ==
    /\ pc = "idle"
    /\ latest_height(blocks) < MaxHeight
    /\ pc' = "build"
    /\ beacon_transaction' = 0
    /\ next_block' = NoBlock
    /\ last' = [op |-> "start", result |-> "Ok",
                time_to_wait |-> time_to_wait(block_generation_time)]
    /\ UNCHANGED <<blocks, pool, unspent_records, now, requests, shutdown, block_generation_time>>

\* The start of a cycle as it would be if the loop did not await the end of
\* produce_next_block (line 210) before its next iteration.
StartCycle_without_await ==
    /\ pc # "exited"
    /\ latest_height(blocks) < MaxHeight
    /\ pc' = IF num_unconfirmed_transactions(pool) = 0 THEN "build" ELSE "propose"
    /\ beacon_transaction' = 0
    /\ next_block' = NoBlock
    /\ last' = [op |-> "start", result |-> "Ok",
                time_to_wait |-> time_to_wait(block_generation_time)]
    /\ UNCHANGED <<blocks, pool, unspent_records, now, requests, shutdown, block_generation_time>>

\* mod.rs 202-208 and 226-230: the loop has slept time_to_wait seconds,
\* produce_next_block starts and looks at the pool.
StartCycle ==
    /\ pc = "idle"
    /\ latest_height(blocks) < MaxHeight
    /\ pc' = IF num_unconfirmed_transactions(pool) = 0 THEN "build" ELSE "propose"
    /\ beacon_transaction' = 0
    /\ next_block' = NoBlock
    /\ last' = [op |-> "start", result |-> "Ok",
                time_to_wait |-> time_to_wait(block_generation_time)]
    /\ UNCHANGED <<blocks, pool, unspent_records, now, requests, shutdown, block_generation_time>>

\* mod.rs 233-278: take the first unspent record and build the self-transfer;
\* execute_ok: whether Transaction::execute succeeds.
BuildFiller(execute_ok) ==
    /\ pc = "build"
    /\ IF unspent_records = <<>>
       THEN /\ pc' = after_cycle
            /\ last' = [op |-> "build", result |-> "NoUnspentRecords"]
            /\ UNCHANGED <<unspent_records, beacon_transaction>>
       ELSE LET commitment == Head(unspent_records) IN
            IF execute_ok
            THEN /\ unspent_records' = shift_remove_index0(unspent_records)
                 /\ beacon_transaction' = FillerTx(commitment).id
                 /\ pc' = "stage"
                 /\ last' = [op |-> "build", result |-> "Ok"]
            ELSE /\ unspent_records' = map_insert(shift_remove_index0(unspent_records), commitment)
                 /\ pc' = after_cycle
                 /\ last' = [op |-> "build", result |-> "ExecuteFailed"]
                 /\ UNCHANGED beacon_transaction
    /\ UNCHANGED <<blocks, pool, now, next_block, requests, shutdown, block_generation_time>>

\* mod.rs 233-278, the arm of line 277: the blocking task that builds the
\* filler panics after it took the record (Transaction::execute panics), the
\* join fails and the cycle ends; nothing puts the record back.
BuildFillerJoinError ==
    /\ pc = "build"
    /\ unspent_records # <<>>
    /\ unspent_records' = shift_remove_index0(unspent_records)
    /\ pc' = after_cycle
    /\ last' = [op |-> "build", result |-> "JoinError"]
    /\ UNCHANGED <<blocks, pool, now, beacon_transaction, next_block, requests, shutdown, block_generation_time>>

\* The filler is staged as it would be if the cycle went on to propose
\* without handing the transaction to the pool.
StageFiller_without_adding ==
    /\ pc = "stage"
    /\ pc' = "propose"
    /\ last' = [op |-> "stage", tx |-> beacon_transaction, result |-> "Ok"]
    /\ UNCHANGED <<blocks, pool, unspent_records, now, beacon_transaction, next_block, requests, shutdown, block_generation_time>>

\* mod.rs 282-288: stage the filler transaction.
StageFiller ==
    /\ pc = "stage"
    /\ LET r == add_unconfirmed_transaction(blocks, pool, beacon_transaction) IN
        /\ pool' = r.pool
        /\ blocks' = r.blocks
        /\ pc' = IF r.result = "Ok" THEN "propose" ELSE after_cycle
        /\ last' = [op |-> "stage", tx |-> beacon_transaction, result |-> r.result]
    /\ UNCHANGED <<unspent_records, now, beacon_transaction, next_block, requests, shutdown, block_generation_time>>

\* mod.rs 294: propose the next block at the current clock reading.
ProposeStep(lib_ok) ==
    /\ pc = "propose"
    /\ LET r == propose_next_block(blocks, pool, "beacon", now, lib_ok) IN
        /\ next_block' = r.block
        /\ pool' = r.pool
        /\ blocks' = r.blocks
        /\ pc' = IF r.result = "Ok" THEN "check" ELSE after_cycle
        /\ last' = [op |-> "propose", result |-> r.result]
    /\ UNCHANGED <<unspent_records, now, beacon_transaction, requests, shutdown, block_generation_time>>

\* mod.rs 297: check the proposed block.
CheckStep ==
    /\ pc = "check"
    /\ LET r == check_next_block(blocks, pool, next_block) IN
        /\ blocks' = r.blocks
        /\ pool' = r.pool
        /\ pc' = IF r.result = "Ok" THEN "advance" ELSE "clear"
        /\ last' = [op |-> "check", result |-> r.result]
    /\ UNCHANGED <<unspent_records, now, beacon_transaction, next_block, requests, shutdown, block_generation_time>>

\* The commit step as it would be if the outputs of the filler transaction
\* were saved whatever advance_to_next_block returns.
AdvanceStep_saving_always(ledger_ok, fail_at, elapsed) ==
    /\ pc = "advance"
    /\ LET r == advance_to_next_block(blocks, pool, next_block, ledger_ok) IN
        /\ blocks' = r.blocks
        /\ pool' = r.pool
        /\ unspent_records' =
              save_unspent_records(unspent_records, r.blocks, beacon_transaction, fail_at)
        /\ pc' = IF r.result = "Ok" THEN after_cycle ELSE "clear"
        /\ block_generation_time' =
              generation_time_after(block_generation_time, r.result, elapsed)
        /\ last' = [op |-> "advance", result |-> r.result,
                    rescan |-> decrypt_fails(beacon_transaction, fail_at),
                    elapsed |-> elapsed]
    /\ UNCHANGED <<now, beacon_transaction, next_block, requests, shutdown>>

\* The commit step as it would be if the loop went on to its next wait after
\* a committed block without reading the flag.
AdvanceStep_starting_over(ledger_ok, fail_at, elapsed) ==
    /\ pc = "advance"
    /\ LET r == advance_to_next_block(blocks, pool, next_block, ledger_ok) IN
        /\ blocks' = r.blocks
        /\ pool' = r.pool
        /\ unspent_records' =
              IF r.result = "Ok"
              THEN save_unspent_records(unspent_records, r.blocks, beacon_transaction, fail_at)
              ELSE unspent_records
        /\ pc' = IF r.result = "Ok" THEN "idle" ELSE "clear"
        /\ block_generation_time' =
              generation_time_after(block_generation_time, r.result, elapsed)
        /\ last' = [op |-> "advance", result |-> r.result,
                    rescan |-> r.result = "Ok" /\ decrypt_fails(beacon_transaction, fail_at),
                    elapsed |-> elapsed]
    /\ UNCHANGED <<now, beacon_transaction, next_block, requests, shutdown>>

\* mod.rs 306-331: commit the block and, on success, save the outputs of the
\* filler transaction; rescan tells whether a decryption failed and the map
\* was recomputed.  elapsed is what timer.elapsed().as_secs() reads when
\* produce_next_block has returned (mod.rs 208-214).
AdvanceStep(ledger_ok, fail_at, elapsed) ==
    /\ pc = "advance"
    /\ LET r == advance_to_next_block(blocks, pool, next_block, ledger_ok) IN
        /\ blocks' = r.blocks
        /\ pool' = r.pool
        /\ unspent_records' =
              IF r.result = "Ok"
              THEN save_unspent_records(unspent_records, r.blocks, beacon_transaction, fail_at)
              ELSE unspent_records
        /\ pc' = IF r.result = "Ok" THEN after_cycle ELSE "clear"
        /\ block_generation_time' =
              generation_time_after(block_generation_time, r.result, elapsed)
        /\ last' = [op |-> "advance", result |-> r.result,
                    rescan |-> r.result = "Ok" /\ decrypt_fails(beacon_transaction, fail_at),
                    elapsed |-> elapsed]
    /\ UNCHANGED <<now, beacon_transaction, next_block, requests, shutdown>>

\* The clearing step as it would be if an error of the cycle ended the loop.
ClearStep_ending_loop ==
    /\ pc = "clear"
    /\ LET r == clear_memory_pool(blocks, pool) IN
        /\ blocks' = r.blocks
        /\ pool' = r.pool
        /\ last' = [op |-> "clear", result |-> r.result]
    /\ pc' = "exited"
    /\ UNCHANGED <<unspent_records, now, beacon_transaction, next_block, requests, shutdown, block_generation_time>>

\* mod.rs 298-302 and 332-338: after a refused block or a failed commit the
\* cycle clears the pool and ends with an error.  The one-second sleep of
\* lines 344-356 that follows is time the clock may take in Tick.
ClearStep ==
    /\ pc = "clear"
    /\ LET r == clear_memory_pool(blocks, pool) IN
        /\ blocks' = r.blocks
        /\ pool' = r.pool
        /\ last' = [op |-> "clear", result |-> r.result]
    /\ pc' = after_cycle
    /\ UNCHANGED <<unspent_records, now, beacon_transaction, next_block, requests, shutdown, block_generation_time>>

\* mod.rs 306-323 when a decryption fails and find_unspent_records fails as
\* well: the block is committed, the `?` of line 323 ends the task with the
\* map holding what was inserted before the failed decryption, and the cycle
\* reports an error: the loop takes the Err arm of line 213 and stores no
\* duration.
AdvanceStepScanError(fail_at, elapsed) ==
    /\ pc = "advance"
    /\ decrypt_fails(beacon_transaction, fail_at)
    /\ LET r == advance_to_next_block(blocks, pool, next_block, TRUE) IN
        /\ blocks' = r.blocks
        /\ pool' = r.pool
    /\ unspent_records' = insert_records_before(unspent_records, beacon_transaction, fail_at)
    /\ pc' = after_cycle
    /\ last' = [op |-> "advance", result |-> "ScanError", rescan |-> FALSE,
                elapsed |-> elapsed]
    /\ UNCHANGED <<now, beacon_transaction, next_block, requests, shutdown, block_generation_time>>

\* The REST transactions the main specification submits.
CoreTxs == {1, 3, 4}

Cycle ==
    \/ StartCycle
    \/ \E execute_ok \in BOOLEAN : BuildFiller(execute_ok)
    \/ StageFiller
    \/ \E lib_ok \in BOOLEAN : ProposeStep(lib_ok)
    \/ CheckStep
    \/ \E ledger_ok \in BOOLEAN, fail_at \in 0..2 :
          AdvanceStep(ledger_ok, fail_at, CYCLE_TIME)
    \/ ClearStep

Next ==
    \/ Tick
    \/ \E id \in CoreTxs : RestAdd(id)
    \/ Cycle

Spec == Init /\ [][Next]_vars

\* The production cycle when no library call fails.
CycleOk ==
    \/ StartCycle
    \/ BuildFiller(TRUE)
    \/ StageFiller
    \/ ProposeStep(TRUE)
    \/ CheckStep
    \/ AdvanceStep(TRUE, 0, CYCLE_TIME)
    \/ ClearStep

----------------------------------------------------------------------------
(* Submissions of transactions that reuse each kind of identifier, with a  *)
(* production cycle in which no library call fails.                        *)

\* Transaction 1 and one transaction per identifier it shares with 1, and a
\* transaction whose fee exceeds its size.
SubmitTxs == {1, 2, 3, 4, 5, 9, 10, 11}

\* A REST handler runs between two production cycles.
SubmitBetweenCycles(id) ==
    /\ pc = "idle"
    /\ RestAdd(id)

\* The clock stands still here: one block is committed, and what is
\* submitted after it meets the identifiers the ledger then holds.
NextSubmit ==
    \/ \E id \in SubmitTxs : SubmitBetweenCycles(id)
    \/ CycleOk

SpecSubmit == Init /\ [][NextSubmit]_vars

----------------------------------------------------------------------------
(* The production cycle with the failures it can meet, a panic of the task *)
(* that builds the filler among them, the clock, and the submission of one *)
(* transaction over REST.                                                  *)

NextRecords ==
    \/ Tick
    \/ RestAdd(1)
    \/ Cycle
    \/ BuildFillerJoinError
    \/ \E fail_at \in 1..2 : AdvanceStepScanError(fail_at, CYCLE_TIME)

SpecRecords == Init /\ [][NextRecords]_vars

----------------------------------------------------------------------------
(* check_next_block on blocks that did not come from propose_next_block:   *)
(* the well-formed successor of the head, changed in up to two places.     *)

Deviations ==
    << "none", "coinbase_solved", "previous_hash", "hash_exists", "hash_stale",
       "height_same", "height_skip", "height_zero", "round_same", "round_skip",
       "timestamp_same", "timestamp_before", "not_well_formed",
       "last_coinbase_target", "last_coinbase_timestamp", "coinbase_target", "proof_target",
       "signature", "transactions_root", "coinbase", "accumulator" >>

\* The transaction lists of the blocks handed to check_next_block.
BlockTxSets == { {}, {0}, {1}, {1, 2}, {5}, {1, 2, 3, 5} }

\* D: the set of deviations.  "coinbase_solved" is a block that carries a
\* coinbase solution with the last-coinbase members such a block has;
\* "coinbase" carries a solution and leaves these members alone.
ArbitraryBlock(bs, transactions, D) ==
    LET latest == latest_block(bs).header
        solved == "coinbase_solved" \in D
        timestamp == IF "timestamp_same" \in D THEN latest.timestamp
                     ELSE IF "timestamp_before" \in D THEN latest.timestamp - 1
                     ELSE latest.timestamp + 1
        expected == coinbase_target(latest.last_coinbase_target,
                                    latest.last_coinbase_timestamp, timestamp)
        target == IF "coinbase_target" \in D THEN expected + 1 ELSE expected
        header ==
            [ round |-> IF "round_same" \in D THEN latest.round
                        ELSE IF "round_skip" \in D THEN latest.round + 2
                        ELSE latest.round + 1,
              height |-> IF "height_zero" \in D THEN 0
                         ELSE IF "height_same" \in D THEN latest.height
                         ELSE IF "height_skip" \in D THEN latest.height + 2
                         ELSE latest.height + 1,
              timestamp |-> timestamp,
              coinbase_target |-> target,
              proof_target |-> IF "proof_target" \in D THEN proof_target(expected) + 1
                               ELSE proof_target(expected),
              last_coinbase_target |->
                  IF solved THEN target
                  ELSE IF "last_coinbase_target" \in D THEN latest.last_coinbase_target + 1
                  ELSE latest.last_coinbase_target,
              last_coinbase_timestamp |->
                  IF solved THEN timestamp
                  ELSE IF "last_coinbase_timestamp" \in D THEN latest.last_coinbase_timestamp + 1
                  ELSE latest.last_coinbase_timestamp,
              transactions_root |-> IF "transactions_root" \in D THEN to_root(transactions \cup {0})
                                    ELSE to_root(transactions),
              coinbase_accumulator_point |-> IF "accumulator" \in D THEN 1 ELSE 0,
              well_formed |-> "not_well_formed" \notin D ]
        previous_hash == IF "previous_hash" \in D THEN <<>> ELSE latest_hash(bs)
        block == NewBlock("beacon", previous_hash, header, transactions,
                          solved \/ "coinbase" \in D)
        hash == IF "hash_exists" \in D THEN GenesisBlock.hash
                ELSE IF "hash_stale" \in D THEN hash_bhp1024(previous_hash, header_to_root(GenesisHeader))
                ELSE block.hash
    IN  [ block EXCEPT
            !.hash = hash,
            !.signature = IF "signature" \in D THEN sign("beacon", GenesisBlock.hash)
                          ELSE sign("beacon", hash) ]

\* A caller hands a block to check_next_block.  The check reads nothing an
\* earlier check left behind, so one check between two other steps is explored.
CheckBlock(block) ==
    /\ last.op # "check_block"
    /\ LET r == check_next_block(blocks, pool, block) IN
        /\ blocks' = r.blocks
        /\ pool' = r.pool
        /\ last' = [op |-> "check_block", block |-> block, result |-> r.result]
    /\ UNCHANGED <<unspent_records, now, pc, beacon_transaction, next_block, requests, shutdown, block_generation_time>>

\* check_next_block does not read the clock: it stands still here.
NextCheck ==
    \/ CycleOk
    \/ \E transactions \in BlockTxSets :
       \E i \in 1..Len(Deviations) : \E j \in i..Len(Deviations) :
           CheckBlock(ArbitraryBlock(blocks, transactions, {Deviations[i], Deviations[j]}))

SpecCheck == Init /\ [][NextCheck]_vars

----------------------------------------------------------------------------
(* check_next_block on blocks with a wrong timestamp, while the clock       *)
(* advances and the cycle commits blocks.                                   *)

ClockDeviations ==
    << "none", "timestamp_same", "timestamp_before", "height_zero", "previous_hash" >>

NextClock ==
    \/ Tick
    \/ CycleOk
    \/ \E i \in 1..Len(ClockDeviations) : \E j \in i..Len(ClockDeviations) :
           CheckBlock(ArbitraryBlock(blocks, {1}, {ClockDeviations[i], ClockDeviations[j]}))

SpecClock == Init /\ [][NextClock]_vars

----------------------------------------------------------------------------
(* add_unconfirmed_transaction called from handlers that run in parallel    *)
(* (the REST server runs on a multi-threaded runtime; the production cycle  *)
(* runs on blocking threads).  The call holds no lock from its tests to     *)
(* its insertion, so it is taken in two steps.                              *)

\* The transactions these calls carry: 3 has the input id of 1.
RaceTxs == {1, 3}

\* The calls between validation and insertion.
in_flight == {q \in 1..MaxRequests : requests[q].stage = "validated"}

\* consensus.rs 56-60: the pool test and check_transaction_basic.
BeginAdd(r, id) ==
    /\ requests[r].stage = "idle"
    /\ LET result == IF contains_unconfirmed_transaction(pool, id) THEN "AlreadyInPool"
                     ELSE check_transaction_basic(blocks, id)
       IN  /\ requests' =
                 [q \in 1..MaxRequests |->
                    IF q = r
                    THEN [stage |-> IF result = "Ok" THEN "validated" ELSE "done",
                          tx |-> id, result |-> result, with |-> in_flight]
                    ELSE IF q \in in_flight
                    THEN [requests[q] EXCEPT !.with = @ \cup {r}]
                    ELSE requests[q]]
           /\ last' = [op |-> "validate", tx |-> id, result |-> result]
    /\ UNCHANGED <<blocks, pool, unspent_records, now, pc, beacon_transaction, next_block, shutdown, block_generation_time>>

\* consensus.rs 62-64: the insertion, and Ok.
FinishAdd(r) ==
    /\ requests[r].stage = "validated"
    /\ pool' = pool_add_unconfirmed_transaction(pool, requests[r].tx)
    /\ requests' = [requests EXCEPT ![r].stage = "done"]
    /\ last' = [op |-> "insert", tx |-> requests[r].tx, result |-> "Ok"]
    /\ UNCHANGED <<blocks, unspent_records, now, pc, beacon_transaction, next_block, shutdown, block_generation_time>>

NextRace ==
    \/ \E r \in 1..MaxRequests : \E id \in RaceTxs : BeginAdd(r, id)
    \/ \E r \in 1..MaxRequests : FinishAdd(r)
    \/ CycleOk

SpecRace == Init /\ [][NextRace]_vars

----------------------------------------------------------------------------
(* The production loop with its shutdown flag: the cycle with the failures *)
(* it can meet, the join errors of its blocking tasks among them.          *)

\* mod.rs 146-158: shut_down sets the flag.  The guard keeps the signal
\* within the bound on the height: it arrives while a cycle is running or
\* can still be started.
ShutDown ==
    /\ ~shutdown
    /\ pc # "idle" \/ latest_height(blocks) < MaxHeight
    /\ shutdown' = TRUE
    /\ last' = [op |-> "shut_down", result |-> "Ok"]
    /\ UNCHANGED <<blocks, pool, unspent_records, now, pc, beacon_transaction, next_block, requests, block_generation_time>>

\* mod.rs 287 and 352-355: the blocking task that stages the filler, or the
\* one that proposes, checks and commits, panics where it stands; the join
\* fails and the cycle ends with an error.
TaskJoinError ==
    /\ pc \in {"stage", "propose", "check", "advance", "clear"}
    /\ pc' = after_cycle
    /\ last' = [op |-> pc, result |-> "JoinError"]
    /\ UNCHANGED <<blocks, pool, unspent_records, now, beacon_transaction, next_block, requests, shutdown, block_generation_time>>

\* The steps of the loop task.
LoopStep ==
    \/ Cycle
    \/ BuildFillerJoinError
    \/ \E fail_at \in 1..2 : AdvanceStepScanError(fail_at, CYCLE_TIME)
    \/ TaskJoinError

\* The clock stands still here: a cycle that follows a commit is refused on
\* its timestamp and ends by clearing the pool.
NextLoop ==
    \/ RestAdd(1)
    \/ LoopStep
    \/ ShutDown

\* The loop task is scheduled: its sleep ends and each call it makes returns.
SpecLoop == Init /\ [][NextLoop]_vars /\ WF_vars(LoopStep)

----------------------------------------------------------------------------
(* The REST write operations.  create_ok: whether the ledger builds the    *)
(* transaction (create_transfer, create_deploy, create_execute); consensus:*)
(* whether the server was given a consensus module.  Each handler returns  *)
(* [response, pool, blocks]: the reply and the state left.                 *)

\* faucet_pour as it would be if it replied with the id whatever
\* add_unconfirmed_transaction returns.
faucet_pour_replying_always(bs, p, id, create_ok, consensus) ==
    IF ~create_ok
    THEN [response |-> "failed to construct the transaction", pool |-> p, blocks |-> bs]
    ELSE IF ~consensus
    THEN [response |-> "no memory pool available", pool |-> p, blocks |-> bs]
    ELSE [response |-> "TransactionId",
          pool |-> add_unconfirmed_transaction(bs, p, id).pool,
          blocks |-> add_unconfirmed_transaction(bs, p, id).blocks]

\* routes.rs 429-456
faucet_pour(bs, p, id, create_ok, consensus) ==
    IF ~create_ok
    THEN [response |-> "failed to construct the transaction", pool |-> p, blocks |-> bs]
    ELSE IF ~consensus
    THEN [response |-> "no memory pool available", pool |-> p, blocks |-> bs]
    ELSE LET r == add_unconfirmed_transaction(bs, p, id) IN
         [response |-> IF r.result = "Ok" THEN "TransactionId"
                       ELSE "failed to add the transaction to the memory pool",
          pool |-> r.pool, blocks |-> r.blocks]

\* routes.rs 459-488
program_deploy(bs, p, id, create_ok, consensus) ==
    IF ~create_ok
    THEN [response |-> "failed to construct the transaction", pool |-> p, blocks |-> bs]
    ELSE IF ~consensus
    THEN [response |-> "no memory pool available", pool |-> p, blocks |-> bs]
    ELSE LET r == add_unconfirmed_transaction(bs, p, id) IN
         [response |-> IF r.result = "Ok" THEN "TransactionId"
                       ELSE "failed to add the transaction to the memory pool",
          pool |-> r.pool, blocks |-> r.blocks]

\* routes.rs 491-524
program_execute(bs, p, id, create_ok, consensus) ==
    IF ~create_ok
    THEN [response |-> "failed to construct the transaction", pool |-> p, blocks |-> bs]
    ELSE IF ~consensus
    THEN [response |-> "no memory pool available", pool |-> p, blocks |-> bs]
    ELSE LET r == add_unconfirmed_transaction(bs, p, id) IN
         [response |-> IF r.result = "Ok" THEN "TransactionId"
                       ELSE "failed to add the transaction to the memory pool",
          pool |-> r.pool, blocks |-> r.blocks]

\* The transactions each operation builds: transfers 1 and 2 spend the same
\* record, 6 and 7 deploy the same program, 5 pays a fee above its size and
\* 8 carries a proof that does not verify.
PourTxs == {1, 2}
DeployTxs == {6, 7}
ExecuteTxs == {5, 8}

\* A request is served: the handler runs and replies.
RestWrite(op, r, id) ==
    /\ Cardinality(pool) < MaxPool
    /\ pool' = r.pool
    /\ blocks' = r.blocks
    /\ last' = [op |-> op, tx |-> id, response |-> r.response]
    /\ UNCHANGED <<unspent_records, now, pc, beacon_transaction, next_block, requests, shutdown, block_generation_time>>

FaucetPour(id, create_ok, consensus) ==
    RestWrite("faucet_pour", faucet_pour(blocks, pool, id, create_ok, consensus), id)

ProgramDeploy(id, create_ok, consensus) ==
    RestWrite("program_deploy", program_deploy(blocks, pool, id, create_ok, consensus), id)

ProgramExecute(id, create_ok, consensus) ==
    RestWrite("program_execute", program_execute(blocks, pool, id, create_ok, consensus), id)

\* The clock stands still: one block is committed.
NextRest ==
    \/ \E id \in PourTxs, create_ok \in BOOLEAN, consensus \in BOOLEAN :
          FaucetPour(id, create_ok, consensus)
    \/ \E id \in DeployTxs, create_ok \in BOOLEAN, consensus \in BOOLEAN :
          ProgramDeploy(id, create_ok, consensus)
    \/ \E id \in ExecuteTxs, create_ok \in BOOLEAN, consensus \in BOOLEAN :
          ProgramExecute(id, create_ok, consensus)
    \/ CycleOk

SpecRest == Init /\ [][NextRest]_vars

----------------------------------------------------------------------------
(* Claims about check_next_block, under SpecCheck *)

\* C1: whatever the head of the ledger (genesis included), check_next_block
\* accepts a block only if its height is the head's height plus one and its
\* round is the head's round plus one.
C1_AcceptedBlockIsNext ==
    (last.op = "check_block" /\ last.result = "Ok") =>
        /\ last.block.header.height = latest_height(blocks) + 1
        /\ last.block.header.round = latest_round(blocks) + 1

\* Two transactions of a block that use the same serial number.
shares_serial_number(transactions) ==
    \E t \in transactions : \E u \in transactions \ {t} :
        Tx(t).serial_numbers \cap Tx(u).serial_numbers # {}

\* C6: check_next_block rejects a block in which two transactions use the
\* same serial number.
C6_DuplicateSerialNumberRejected ==
    (last.op = "check_block" /\ shares_serial_number(last.block.transactions)) =>
        last.result # "Ok"

\* C8: check_next_block changes neither the ledger nor the pool, whether it
\* accepts or rejects.
C8_CheckLeavesLedgerAndPool ==
    [][last'.op \in {"check_block", "check"} => (blocks' = blocks /\ pool' = pool)]_vars

C8_Witness ==
    /\ last.op = "check_block"
    /\ last.result # "Ok"
    /\ pool # {}

\* The rules of the admission rule set that a block violates, as the
\* specification lists them.
violated_rules(bs, block) ==
    LET header == block.header
        expected == coinbase_target(last_coinbase_target(bs), last_coinbase_timestamp(bs),
                                    header.timestamp)
    IN
    (IF latest_hash(bs) # block.previous_hash \/ contains_block_hash(bs, block.hash)
        THEN {1} ELSE {})
    \cup (IF \/ header.height # latest_height(bs) + 1
             \/ header.round # latest_round(bs) + 1
          THEN {2} ELSE {})
    \cup (IF header.height > 0 /\ header.timestamp <= latest_timestamp(bs) THEN {3} ELSE {})
    \cup (IF \/ \E t \in block.transactions : contains_transaction_id(bs, t)
             \/ \E x \in block_serial_numbers(block) : contains_serial_number(bs, x)
             \/ \E x \in block_commitments(block) : contains_commitment(bs, x)
             \/ \E x \in block_nonces(block) : contains_nonce(bs, x)
             \/ \E x \in block_tpks(block) : contains_tpk(bs, x)
          THEN {4} ELSE {})
    \cup (IF \/ ~header_is_valid(header)
             \/ block.coinbase
             \/ /\ header.height > 0
                /\ \/ header.last_coinbase_target # last_coinbase_target(bs)
                   \/ header.last_coinbase_timestamp # last_coinbase_timestamp(bs)
          THEN {5} ELSE {})
    \cup (IF \/ header.coinbase_target # expected
             \/ header.proof_target # proof_target(expected)
          THEN {6} ELSE {})
    \cup (IF \/ hash_bhp1024(block.previous_hash, header_to_root(header)) # block.hash
             \/ block.signature.message # block.hash
          THEN {7} ELSE {})
    \cup (IF \/ to_root(block.transactions) # header.transactions_root
             \/ block.transactions = {}
             \/ Cardinality(block.transactions) > MAX_TRANSACTIONS
             \/ \E t \in block.transactions : check_transaction_basic(bs, t) # "Ok"
          THEN {8} ELSE {})

\* The rule an error of check_next_block belongs to.
rule_of(error) ==
    CASE error \in {"IncorrectPreviousHash", "BlockHashExists"} -> 1
      [] error \in {"IncorrectHeight", "BlockHeightExists", "IncorrectRound", "InvalidGenesis"} -> 2
      [] error = "TimestampNotAfter" -> 3
      [] error \in {"TransactionExists", "SerialNumberExists", "CommitmentExists",
                    "NonceExists", "TpkExists"} -> 4
      [] error \in {"InvalidHeader", "LastCoinbaseTarget", "LastCoinbaseTimestamp",
                    "CoinbaseSolutionPresent", "NonZeroAccumulatorPoint"} -> 5
      [] error \in {"InvalidCoinbaseTarget", "InvalidProofTarget"} -> 6
      [] error \in {"IncorrectBlockHash", "InvalidSignature"} -> 7
      [] error \in {"IncorrectTransactionsRoot", "EmptyTransactions", "TooManyTransactions",
                    "InvalidTransactionInList"} -> 8
      [] OTHER -> 0

\* C9: check_next_block reports the error of the lowest-numbered rule that
\* the block violates (blocks with a zero accumulator point).
C9_LowestViolatedRuleReported ==
    (/\ last.op = "check_block"
     /\ last.block.header.coinbase_accumulator_point = 0
     /\ violated_rules(blocks, last.block) # {}) =>
        \A n \in violated_rules(blocks, last.block) : rule_of(last.result) <= n /\ rule_of(last.result) # 0

----------------------------------------------------------------------------
(* Claims about submissions, under SpecSubmit *)

\* Two transactions share an identifier that the ledger keeps unique.
share_identifier(t, u) ==
    \/ Tx(t).id = Tx(u).id
    \/ Tx(t).serial_numbers \cap Tx(u).serial_numbers # {}
    \/ Tx(t).commitments \cap Tx(u).commitments # {}
    \/ Tx(t).nonces \cap Tx(u).nonces # {}
    \/ Tx(t).input_ids \cap Tx(u).input_ids # {}
    \/ Tx(t).output_ids \cap Tx(u).output_ids # {}

\* C2: no serial number, commitment, nonce, input id, output id or
\* transaction id occurs in two different committed blocks.
C2_NoIdentifierInTwoBlocks ==
    \A i \in 1..Len(blocks) : \A j \in (i + 1)..Len(blocks) :
        \A t \in blocks[i].transactions : \A u \in blocks[j].transactions :
            ~share_identifier(t, u)

\* Two blocks, each with a submitted transaction, have been committed.
C2_Witness ==
    /\ Len(blocks) = 3
    /\ blocks[2].transactions \cap CoreTxs # {}
    /\ blocks[3].transactions \cap CoreTxs # {}

\* A transaction reuses an input identifier (serial number, input id, tag)
\* or an output identifier (commitment, output id, nonce) of a committed one.
reuses_confirmed(bs, id) ==
    \E t \in confirmed(bs) :
        \/ Tx(t).serial_numbers \cap Tx(id).serial_numbers # {}
        \/ Tx(t).input_ids \cap Tx(id).input_ids # {}
        \/ Tx(t).tags \cap Tx(id).tags # {}
        \/ Tx(t).commitments \cap Tx(id).commitments # {}
        \/ Tx(t).output_ids \cap Tx(id).output_ids # {}
        \/ Tx(t).nonces \cap Tx(id).nonces # {}

\* C4: add_unconfirmed_transaction rejects a transaction that reuses an
\* input or output identifier of a committed transaction, and the rejected
\* call leaves the pool and the ledger as they were.
C4_ReuseOfConfirmedRejected ==
    [][(last'.op = "add" /\ reuses_confirmed(blocks, last'.tx)) =>
          (last'.result # "Ok" /\ pool' = pool /\ blocks' = blocks)]_vars

\* Transaction 9 reuses the tag of the committed transaction 1 and is refused.
C4_Witness ==
    /\ last.op = "add"
    /\ last.tx = 9
    /\ last.result = "TagExists"
    /\ 1 \in confirmed(blocks)

\* C7: check_transaction_basic rejects a transaction whose fee is
\* non-negative and smaller than its size, and does not reject for its fee a
\* transaction whose fee is at least its size.
C7_FeeRule ==
    last.op = "add" =>
        /\ (Tx(last.tx).fee >= 0 /\ Tx(last.tx).fee < Tx(last.tx).size) => last.result # "Ok"
        /\ Tx(last.tx).fee >= Tx(last.tx).size => last.result # "InsufficientFee"

----------------------------------------------------------------------------
(* Claims about submissions and the production cycle, under Spec *)

\* C3: of two distinct transactions that consume the same input identifier,
\* submitted with no block committed in between, the second is refused: as
\* long as only the genesis block is committed, an accepted submission shares
\* no input identifier with a pooled transaction.
C3_ConflictingSubmissionRejected ==
    (/\ last.op = "add"
     /\ Len(blocks) = 1
     /\ \E u \in pool \ {last.tx} :
            \/ Tx(u).serial_numbers \cap Tx(last.tx).serial_numbers # {}
            \/ Tx(u).input_ids \cap Tx(last.tx).input_ids # {}) =>
        last.result # "Ok"

\* C5: check_next_block succeeds on the block propose_next_block has just
\* returned.
C5_ProposedBlockPassesCheck ==
    last.op = "check" => last.result = "Ok"

\* C10 as stated: when ledger.add_next_block fails, advance_to_next_block
\* returns the error with the pool empty and the ledger unchanged.
C10_PoolEmptyOnReturn ==
    [][(last'.op = "advance" /\ last'.result # "Ok") =>
          (pool' = {} /\ blocks' = blocks)]_vars

\* C10, amended: when ledger.add_next_block fails, advance_to_next_block
\* returns the error with the pool and the ledger unchanged; its caller
\* produce_next_block then clears the pool before the cycle ends.
C10_PoolClearedByCaller ==
    [][/\ (last'.op = "advance" /\ last'.result # "Ok") =>
              (pool' = pool /\ blocks' = blocks /\ pc' = "clear")
       /\ (pc = "clear" /\ pc' # "clear") => (pool' = {} /\ blocks' = blocks)]_vars

\* A commit has failed and the pool still holds the block's transactions.
C10_Witness ==
    /\ last.op = "advance"
    /\ last.result = "LedgerError"
    /\ pool # {}
    /\ pc = "clear"

\* C11: after a successful advance_to_next_block the pool is the earlier pool
\* restricted to the transactions that still pass basic validity against
\* the new ledger: no transaction of the committed block and no transaction
\* that reuses an identifier of a confirmed one stays, and no transaction
\* that is still valid is removed.
C11_PoolPrunedAfterAdvance ==
    [][(last'.op = "advance" /\ last'.result = "Ok") =>
          /\ pool' = {t \in pool : check_transaction_basic(blocks', t) = "Ok"}
          /\ pool' \cap latest_block(blocks').transactions = {}
          /\ \A t \in pool' : ~reuses_confirmed(blocks', t)]_vars

\* A block with a submitted transaction has been committed and a transaction
\* submitted after the proposal, still valid, is in the pool.
C11_Witness ==
    /\ last.op = "advance"
    /\ last.result = "Ok"
    /\ latest_block(blocks).transactions \cap CoreTxs # {}
    /\ pool # {}

----------------------------------------------------------------------------
(* Claims about the production cycle *)

\* C12: when check_next_block refuses the proposed block, nothing is
\* committed and the cycle clears the pool before it ends: with no
\* submission in between, the pool is empty at the end of the cycle.
C12_PoolClearedAfterRefusedBlock ==
    [][/\ (last'.op = "check" /\ last'.result # "Ok") =>
              (pc' = "clear" /\ blocks' = blocks)
       /\ (pc = "clear") =>
              (pc' = "idle" /\ pool' = {} /\ blocks' = blocks)]_vars

\* A cycle has ended by clearing the pool after its block was refused (in
\* SpecSubmit no commit fails, and a second block is refused for its
\* timestamp).
C12_Witness ==
    /\ last.op = "clear"
    /\ pc = "idle"
    /\ pool = {}
    /\ Len(blocks) = 2

\* C13: when advance_to_next_block fails after a successful check, the
\* ledger height stays, no output of the cycle's filler transaction enters
\* the unspent records, and the cycle clears the pool and ends.
C13_FailedCommitAbandonsCycle ==
    [][/\ (last'.op = "advance" /\ last'.result # "Ok") =>
              /\ latest_height(blocks') = latest_height(blocks)
              /\ unspent_records' = unspent_records
              /\ beacon_transaction # 0 =>
                     Range(unspent_records') \cap Tx(beacon_transaction).commitments = {}
              /\ pc' = "clear"
       /\ (pc = "clear" /\ pc' # "clear") =>
              /\ pc' = "idle"
              /\ pool' = {}
              /\ latest_height(blocks') = latest_height(blocks)
              /\ unspent_records' = unspent_records]_vars

\* The commit of a block that holds the cycle's filler transaction has failed.
C13_Witness ==
    /\ last.op = "advance"
    /\ last.result = "LedgerError"
    /\ beacon_transaction # 0
    /\ beacon_transaction \in next_block.transactions

----------------------------------------------------------------------------
(* Claims about add_unconfirmed_transaction *)

\* C14: add_unconfirmed_transaction fails for a transaction whose id is in
\* the pool or confirmed in the ledger; a failed call leaves the pool as it
\* was; a successful call adds one entry, so that after successful adds of
\* distinct ids the pool length is the number of ids added.
C14_DuplicateIdRejected ==
    [][last'.op = "add" =>
          /\ (last'.tx \in pool \/ last'.tx \in confirmed(blocks)) => last'.result # "Ok"
          /\ last'.result # "Ok" => pool' = pool
          /\ last'.result = "Ok" =>
                 /\ pool' = pool \cup {last'.tx}
                 /\ Cardinality(pool') = Cardinality(pool) + 1]_vars

\* A transaction has been submitted again while it was in the pool.
C14_Witness ==
    /\ last.op = "add"
    /\ last.result = "AlreadyInPool"
    /\ last.tx \in pool

----------------------------------------------------------------------------
(* Claims about calls that run in parallel, under SpecRace *)

\* C15: of two calls of add_unconfirmed_transaction with the same
\* transaction that run concurrently (the second began while the first was
\* between its tests and its insertion), exactly one succeeds.
C15_ExactlyOneOfTwoSucceeds ==
    \A r \in 1..MaxRequests : \A q \in requests[r].with :
        (/\ requests[r].stage = "done"
         /\ requests[q].stage = "done"
         /\ requests[r].tx = requests[q].tx) =>
            (requests[r].result = "Ok") # (requests[q].result = "Ok")

\* A pooled transaction has the id, or an input or output identifier, of a
\* confirmed transaction.
conflicts_with_ledger(bs, id) ==
    contains_transaction_id(bs, id) \/ reuses_confirmed(bs, id)

\* C16: once the calls of add_unconfirmed_transaction and
\* advance_to_next_block have returned, whatever their interleaving, no
\* transaction that conflicts with the committed ledger is in the pool.
C16_NoConflictingEntryAfterReturn ==
    (in_flight = {} /\ pc # "advance") =>
        \A t \in pool : ~conflicts_with_ledger(blocks, t)

----------------------------------------------------------------------------
(* Claims about the committed chain, under Spec *)

\* C17: each committed block has the height and the round of the block
\* committed before it plus one, from the genesis block at height 0 on.
C17_HeightAndRoundByOne ==
    /\ blocks[1].header.height = 0
    /\ \A i \in 2..Len(blocks) :
          /\ blocks[i].header.height = blocks[i - 1].header.height + 1
          /\ blocks[i].header.round = blocks[i - 1].header.round + 1

\* Two blocks have been committed after genesis.
C17_Witness ==
    /\ Len(blocks) = 3
    /\ latest_height(blocks) = 2
    /\ latest_round(blocks) = 2

----------------------------------------------------------------------------
(* Claims about timestamps, under SpecClock *)

\* C18: check_next_block rejects every non-genesis block whose timestamp
\* is not after the timestamp of the head block, and the timestamps of the
\* committed blocks increase strictly with the height.
C18_TimestampsIncrease ==
    /\ (/\ last.op = "check_block"
        /\ ~is_genesis(last.block)
        /\ last.block.header.timestamp <= latest_block(blocks).header.timestamp) =>
           last.result # "Ok"
    /\ \A i \in 2..Len(blocks) :
           blocks[i].header.timestamp > blocks[i - 1].header.timestamp

\* A block with the timestamp of the head, which is not the genesis block,
\* has been refused for its timestamp.
C18_Witness ==
    /\ last.op = "check_block"
    /\ last.result = "TimestampNotAfter"
    /\ Len(blocks) >= 2
    /\ last.block.header.timestamp = latest_block(blocks).header.timestamp

----------------------------------------------------------------------------
(* Claims about the coinbase members, under SpecCheck and Spec *)

\* C19: check_next_block accepts no block that carries a coinbase solution
\* or a non-zero coinbase accumulator point, and a block built by
\* propose_next_block has no coinbase solution and a zero accumulator point.
C19_NoCoinbaseSolution ==
    /\ (/\ last.op = "check_block"
        /\ \/ last.block.coinbase
           \/ last.block.header.coinbase_accumulator_point # 0) =>
           last.result # "Ok"
    /\ next_block # NoBlock =>
           /\ ~next_block.coinbase
           /\ next_block.header.coinbase_accumulator_point = 0

\* A block that passes every other test has been refused for its coinbase
\* solution, while a proposed block is at hand.
C19_Witness ==
    /\ last.op = "check_block"
    /\ last.result = "CoinbaseSolutionPresent"
    /\ next_block # NoBlock

\* C20: the coinbase target, the proof target and the last-coinbase members
\* that propose_next_block writes into a block are the values
\* check_next_block computes from the same ledger, so the check of a
\* proposed block fails neither on the last-coinbase members nor on the
\* targets.
C20_ProposedTargetsMatch ==
    /\ pc = "check" =>
          LET header == next_block.header
              expected == coinbase_target(last_coinbase_target(blocks),
                                          last_coinbase_timestamp(blocks), header.timestamp)
          IN  /\ header.coinbase_target = expected
              /\ header.proof_target = proof_target(expected)
              /\ header.last_coinbase_target = last_coinbase_target(blocks)
              /\ header.last_coinbase_timestamp = last_coinbase_timestamp(blocks)
    /\ last.op = "check" =>
          last.result \notin {"LastCoinbaseTarget", "LastCoinbaseTimestamp",
                              "InvalidCoinbaseTarget", "InvalidProofTarget"}

\* A proposed block whose timestamp gives a target other than the genesis
\* target, on a head other than the genesis block, has passed the check.
C20_Witness ==
    /\ last.op = "check"
    /\ last.result = "Ok"
    /\ Len(blocks) = 2
    /\ next_block.header.coinbase_target # GENESIS_COINBASE_TARGET

----------------------------------------------------------------------------
\* A cycle that built its filler from the only record of the map and has
\* met no submission: the filler is set, the map is empty and the pool holds
\* nothing but the filler.
one_record_cycle ==
    /\ pc \in {"stage", "propose", "check", "advance"}
    /\ beacon_transaction # 0
    /\ Gates(beacon_transaction - 1000) >= 1
    /\ unspent_records = <<>>
    /\ pool \subseteq {beacon_transaction}

----------------------------------------------------------------------------
\* The step that commits the block of a cycle which built its own filler
\* and saves the outputs by inserting them (no decryption failed).
commits_and_inserts ==
    /\ pc = "advance"
    /\ beacon_transaction # 0
    /\ blocks' = Append(blocks, next_block)
    /\ unspent_records' = insert_records(unspent_records, into_records(beacon_transaction))

\* The size of the map when the cycle started: the record at index 0 has
\* been taken out since.
size_before_cycle == Len(unspent_records) + 1

\* C22 as stated: after a cycle that committed its self-transfer the map
\* has the size it had before the cycle, whatever the value of the record.
C22_SizeUnchanged ==
    [][ commits_and_inserts => Len(unspent_records') = size_before_cycle ]_vars

\* C22 amended: after a cycle that committed its self-transfer of a record
\* of value v the map has its former size when v = 1 (the change is zero
\* and is not inserted) and one entry more when v >= 2 (the 1-unit output
\* and the change are both inserted).
C22_SizeGrowsWithNonZeroChange ==
    [][ commits_and_inserts =>
          LET v == Gates(beacon_transaction - 1000) IN
          /\ v >= 1
          /\ Len(unspent_records') = size_before_cycle + (IF v >= 2 THEN 1 ELSE 0) ]_vars

\* The second cycle has spent record 100, of value 1: the map keeps its
\* size of two, after the first cycle took it from one entry to two.
C22_Witness ==
    /\ last.op = "advance"
    /\ last.result = "Ok"
    /\ beacon_transaction = 1100
    /\ Len(blocks) = 3
    /\ blocks[2].transactions = {1050}
    /\ unspent_records = <<101, 200>>

----------------------------------------------------------------------------
\* C23: a cycle goes on to build a filler exactly when the pool is empty at
\* its start; building takes the record at index 0 out of the map, and no
\* other, and yields one transfer whose outputs belong to the operator;
\* staging adds that one transaction to the pool; a cycle that found the
\* pool non-empty has no filler and leaves the map as it is.
C23_FillerIffPoolEmpty ==
    [][ /\ (pc = "idle" /\ pc' # "idle") => (pc' = "build" <=> pool = {})
        /\ (pc = "build" /\ pc' = "stage") =>
              /\ unspent_records # <<>>
              /\ unspent_records' = Tail(unspent_records)
              /\ beacon_transaction' = 1000 + Head(unspent_records)
              /\ \A c \in Tx(beacon_transaction').commitments : owned_by_operator(c)
              /\ pool' = pool
        /\ (pc = "stage" /\ pc' = "propose") =>
              /\ pool' = pool \cup {beacon_transaction}
              /\ unspent_records' = unspent_records
        /\ (beacon_transaction' # beacon_transaction /\ beacon_transaction' # 0) => pc = "build"
        /\ (pc # "build" /\ beacon_transaction = 0) =>
              /\ unspent_records' = unspent_records
              /\ pc' # "idle" => beacon_transaction' = 0 ]_vars

\* A first cycle found transaction 1 in the pool and committed it with the
\* map untouched; the second found the pool empty, took the genesis record
\* and staged its transfer.
C23_Witness ==
    /\ Len(blocks) = 2
    /\ blocks[2].transactions = {1}
    /\ pc = "propose"
    /\ beacon_transaction = 1050
    /\ unspent_records = <<>>
    /\ pool = {1050}

----------------------------------------------------------------------------
\* C24: a cycle that ends in the filler branch, for want of a record or
\* because the construction of the transfer failed, proposes and commits
\* nothing and leaves the map with the commitments it had.
C24_FailedFillerRestoresRecords ==
    [][ (pc = "build" /\ pc' = "idle") =>
          /\ Range(unspent_records') = Range(unspent_records)
          /\ blocks' = blocks
          /\ next_block' = NoBlock ]_vars

----------------------------------------------------------------------------
----------------------------------------------------------------------------
----------------------------------------------------------------------------
\* The step is one of the cycle (it is named after the position it starts
\* from) and ends it: the block is committed, or it was refused and the pool
\* is cleared, or a call of the cycle failed.
cycle_ends ==
    /\ pc \notin {"idle", "exited"}
    /\ last'.op = pc
    /\ \/ pc = "advance" /\ last'.result # "LedgerError"
       \/ pc = "clear"
       \/ pc \in {"build", "stage", "propose"} /\ last'.result # "Ok"
       \/ last'.result = "JoinError"

\* C27: the loop leaves only in a step that ends a cycle and only with the
\* flag set, and it does leave in such a step when the flag is set; a
\* proposed block goes to the check and a checked block to the commit or
\* the clearing whatever the flag says, unless the task panics; after
\* leaving the loop starts no
\* cycle and commits nothing; and once the flag is set the loop leaves.
C27_FlagReadAtCycleEnd ==
    /\ [][ /\ (pc' = "exited" /\ pc # "exited") => (cycle_ends /\ shutdown)
           /\ (cycle_ends /\ shutdown) => pc' = "exited"
           /\ (pc = "propose" /\ last'.op = "propose" /\ last'.result = "Ok") => pc' = "check"
           /\ (pc = "check" /\ last'.op = "check" /\ last'.result # "JoinError")
                 => pc' \in {"advance", "clear"}
           /\ (pc = "advance" /\ last'.op = "advance" /\ last'.result = "LedgerError")
                 => pc' = "clear"
           /\ pc = "exited" =>
                 (pc' = "exited" /\ blocks' = blocks /\ unspent_records' = unspent_records)
        ]_vars
    /\ (shutdown ~> pc = "exited")

\* The flag was set while the first cycle was running; the cycle committed
\* its block and the loop left.
C27_Witness ==
    /\ pc = "exited"
    /\ shutdown
    /\ last.op = "advance"
    /\ last.result = "Ok"
    /\ Len(blocks) = 2

----------------------------------------------------------------------------
\* The step ends a cycle in any way but the commit of its block.
cycle_fails == cycle_ends /\ ~(pc = "advance" /\ last'.result = "Ok")

\* C28: a cycle that ends otherwise than by committing its block, while the
\* flag is not set, leaves the loop at its wait; and from the wait after
\* such a cycle the loop starts another cycle.
C28_FailedCycleKeepsLoop ==
    /\ [][ (cycle_fails /\ ~shutdown) => pc' = "idle" ]_vars
    /\ ((pc = "idle" /\ last.op \in {"build", "stage", "propose", "check", "advance", "clear"}
           /\ ~(last.op = "advance" /\ last.result = "Ok")
           /\ latest_height(blocks) < MaxHeight)
          ~> pc \in {"build", "propose"})

\* A first cycle took the genesis record and failed after it; the loop has
\* started another cycle, which finds no record.
C28_Witness ==
    /\ ~shutdown
    /\ Len(blocks) = 1
    /\ unspent_records = <<>>
    /\ pc = "build"

----------------------------------------------------------------------------
\* The positions a cycle can move to from position p.
cycle_successors(p) ==
    CASE p = "idle"    -> {"build", "propose"}
      [] p = "build"   -> {"stage", "idle"}
      [] p = "stage"   -> {"propose", "idle"}
      [] p = "propose" -> {"check", "idle"}
      [] p = "check"   -> {"advance", "clear"}
      [] p = "advance" -> {"idle", "clear"}
      [] OTHER         -> {"idle"}

\* C29: the steps of a cycle follow one another in the order of
\* produce_next_block and no cycle starts before the one in progress has
\* ended; the ledger changes only in the commit of the cycle, by the block
\* the cycle proposed; and the block that is checked and committed was
\* built on the head the ledger still has.
C29_OneCycleAtATime ==
    [][ /\ pc' # pc => pc' \in cycle_successors(pc)
        /\ last'.op = "start" => pc = "idle"
        /\ blocks' # blocks =>
              (pc = "advance" /\ last'.op = "advance" /\ blocks' = Append(blocks, next_block))
        /\ (pc \in {"check", "advance"} /\ last'.op = pc) =>
              /\ next_block.previous_hash = latest_hash(blocks)
              /\ next_block.header.height = latest_height(blocks) + 1
              /\ next_block.header.round = latest_round(blocks) + 1 ]_vars

\* The second cycle is about to commit a block built on the block the first
\* cycle committed.
C29_Witness ==
    /\ pc = "advance"
    /\ Len(blocks) = 2
    /\ next_block.previous_hash = latest_hash(blocks)
    /\ next_block.header.height = 2

----------------------------------------------------------------------------
\* The replies that reject a request.
Rejections ==
    { "failed to construct the transaction",
      "failed to add the transaction to the memory pool",
      "no memory pool available" }

----------------------------------------------------------------------------
----------------------------------------------------------------------------
\* C32: when a call of add_unconfirmed_transaction, made by a REST handler
\* or by the cycle staging its filler, returns Ok, the pool holds the
\* transaction, has one entry more than before the call and has lost none,
\* and the ledger is the one before the call.
C32_AddedIsInPool ==
    [][ (last'.op \in {"add", "stage"} /\ last'.result = "Ok") =>
          /\ contains_unconfirmed_transaction(pool', last'.tx)
          /\ num_unconfirmed_transactions(pool') = num_unconfirmed_transactions(pool) + 1
          /\ pool \subseteq pool'
          /\ blocks' = blocks ]_vars

\* Transaction 1 was accepted while the filler of the first cycle was
\* staged: the pool holds both.
C32_Witness ==
    /\ last.op = "add"
    /\ last.result = "Ok"
    /\ last.tx = 1
    /\ pool = {1, 1050}
    /\ Len(blocks) = 1

----------------------------------------------------------------------------
\* C33: a call of propose_next_block, whether it returns a block or an
\* error, leaves the pool with the entries it had, the transactions of the
\* returned block among them, and leaves the ledger as it was.
C33_ProposeLeavesPoolAndLedger ==
    [][ (pc = "propose" /\ last'.op = "propose") =>
          /\ pool' = pool
          /\ blocks' = blocks
          /\ last'.result = "Ok" => next_block'.transactions \subseteq pool' ]_vars

\* A block holding transaction 1 and the filler is proposed and both are
\* still in the pool.
C33_Witness ==
    /\ last.op = "propose"
    /\ last.result = "Ok"
    /\ next_block.transactions = {1, 1050}
    /\ pool = {1, 1050}

----------------------------------------------------------------------------
(* The production loop with its timer: the cycle, with the failures it can *)
(* meet, taking any duration on the monotonic clock of Instant::now().     *)

\* The largest duration of the run of small durations.
MaxDuration == 17

\* The durations timer.elapsed().as_secs() can read: the small ones, below,
\* at and above ROUND_TIME, and one far above.
Durations == (0..MaxDuration) \cup {2 ^ 20}

NextTimer ==
    \/ Tick
    \/ StartCycle
    \/ \E execute_ok \in BOOLEAN : BuildFiller(execute_ok)
    \/ StageFiller
    \/ \E lib_ok \in BOOLEAN : ProposeStep(lib_ok)
    \/ CheckStep
    \/ \E ledger_ok \in BOOLEAN, fail_at \in 0..2, elapsed \in Durations :
          AdvanceStep(ledger_ok, fail_at, elapsed)
    \/ ClearStep
    \/ \E fail_at \in 1..2, elapsed \in Durations : AdvanceStepScanError(fail_at, elapsed)

SpecTimer == Init /\ [][NextTimer]_vars

\* C34: the wait before a cycle is max(0, 15 - block_generation_time): it is
\* 15 minus the stored duration while that is at most 15 and 0 above, never
\* more than 15 and never negative; before the first stored duration the
\* stored value is 2 and the wait 13.
C34_WaitSaturates ==
    /\ last.op = "init" =>
          /\ block_generation_time = 2
          /\ time_to_wait(block_generation_time) = 13
    /\ last.op = "start" =>
          /\ last.time_to_wait \in 0..15
          /\ block_generation_time <= 15 =>
                last.time_to_wait + block_generation_time = 15
          /\ block_generation_time > 15 => last.time_to_wait = 0
          /\ Len(blocks) = 1 => last.time_to_wait = 13

\* A cycle starts after a commit that took longer than the round.
C34_Witness ==
    /\ last.op = "start"
    /\ Len(blocks) = 2
    /\ block_generation_time = 2 ^ 20
    /\ last.time_to_wait = 0

\* C35: a step of the cycle that commits a block leaves the cycle's elapsed
\* time in block_generation_time, and a step of the cycle that commits no
\* block leaves block_generation_time as it was.
C35_DurationFollowsCommit ==
    [][ /\ blocks' # blocks => block_generation_time' = last'.elapsed
        /\ blocks' = blocks => block_generation_time' = block_generation_time ]_vars

\* C36: taking the first record of the map and restoring it gives a map with
\* the same commitments, and inserting a commitment the map already holds
\* leaves its number of entries as it was; the step of the cycle that
\* restores the record after a failed execution ends with the commitments
\* it started with.
C36_RestoreKeepsCommitments ==
    [][ /\ unspent_records # <<>> =>
              /\ Range(map_insert(shift_remove_index0(unspent_records),
                                  Head(unspent_records))) = Range(unspent_records)
              /\ Len(map_insert(shift_remove_index0(unspent_records),
                                Head(unspent_records))) = Len(unspent_records)
        /\ \A c \in Range(unspent_records) :
              /\ Len(map_insert(unspent_records, c)) = Len(unspent_records)
              /\ Range(map_insert(unspent_records, c)) = Range(unspent_records)
        /\ (pc = "build" /\ last'.op = "build" /\ last'.result = "ExecuteFailed") =>
              /\ Range(unspent_records') = Range(unspent_records)
              /\ Len(unspent_records') = Len(unspent_records)
              /\ Len(map_insert(unspent_records', Head(unspent_records)))
                    = Len(unspent_records) ]_vars

\* A record of a map of two has been taken and restored: it is now last.
C36_Witness ==
    /\ last.op = "build"
    /\ last.result = "ExecuteFailed"
    /\ Len(unspent_records) = 2
    /\ unspent_records[1] > unspent_records[2]

\* C37: a cycle that started with a non-empty pool (it went to the proposal
\* without building a filler) ends with a block committed or with the pool
\* empty, whatever step ends it, an error of propose_next_block included.
C37_CycleCommitsOrEmptiesPool ==
    [][ (cycle_ends /\ beacon_transaction = 0
            /\ pc \in {"propose", "check", "advance", "clear"})
        => (blocks' # blocks \/ pool' = {}) ]_vars

\* The record the cycle took out of the map for its filler transaction.
taken_record == CHOOSE c \in 1..999 : FillerTx(c).id = beacon_transaction

\* C38: when a cycle that built a filler transaction ends without a commit
\* (the staging was rejected, the proposal failed, the block was refused or
\* the commit failed), the record taken for the filler is in the map again.
C38_UncommittedFillerRestoresRecord ==
    [][ (cycle_ends /\ beacon_transaction # 0 /\ blocks' = blocks)
        => taken_record \in Range(unspent_records') ]_vars

----------------------------------------------------------------------------
(* The production loop beside the faucet: POST /testnet3/faucet/pour is    *)
(* served with the private key of the node's account (routes.rs 215-223),  *)
(* the key whose records the loop keeps in unspent_records.                *)

\* A pour of the whole balance of the record create_transfer chooses.
FaucetPourRecord(amount) ==
    LET c == create_transfer(blocks, amount) IN
    /\ c # 0 => Gates(c) = amount
    /\ FaucetPour(IF c = 0 THEN 0 ELSE PourTx(c).id, c # 0, TRUE)

NextFaucet ==
    \/ Tick
    \/ \E amount \in 1..2 : FaucetPourRecord(amount)
    \/ Cycle

SpecFaucet == Init /\ [][NextFaucet]_vars

\* C39: between two cycles, every record of unspent_records is an output of a
\* committed transaction and its serial number is not in the ledger.
C39_RecordsAreUnspentOutputs ==
    pc \in {"idle", "exited"} =>
        \A c \in Range(unspent_records) :
            /\ \E t \in confirmed(blocks) : c \in Tx(t).commitments
            /\ ~contains_serial_number(blocks, serial_number_of(c))

----------------------------------------------------------------------------
(* The production loop with its shutdown flag under a running clock: the   *)
(* loop can commit one block after another until the flag stops it.        *)

NextStop ==
    \/ Tick
    \/ RestAdd(1)
    \/ LoopStep
    \/ ShutDown

SpecStop == Init /\ [][NextStop]_vars

\* C40: a block committed while the shutdown flag is set is the last one: the
\* step that commits it ends the loop, and a loop that has ended commits
\* nothing; so at most one block follows the setting of the flag, wherever
\* the loop stood when it was set.
C40_OneBlockAfterShutdown ==
    [][ /\ (shutdown /\ blocks' # blocks) => pc' = "exited"
        /\ pc = "exited" => (blocks' = blocks /\ pc' = "exited") ]_vars

\* The loop has committed two blocks, and the commit of the second, made
\* with the flag set, ended it.
C40_Witness ==
    /\ pc = "exited"
    /\ shutdown
    /\ last.op = "advance"
    /\ last.result = "Ok"
    /\ Len(blocks) = 3
====
